---- MODULE Spec2Model ----
(***************************************************************************)
(* A model of python-jss: the session of jss.py (JSS, JSSObject) and the   *)
(* resource classes of jss/jssobjects.py (descriptors, FileUpload,         *)
(* LDAPServer, ComputerGroup, MobileDeviceGroup, Policy, Computer,         *)
(* MobileDevice).                                                          *)
(*                                                                         *)
(* Each part of the program has its own variables and its own              *)
(* specification; a specification leaves the other parts' variables alone. *)
(***************************************************************************)
EXTENDS Integers, Sequences, FiniteSets, TLC

VARIABLES
    jss,        \* the JSS object: url, _url, user, password, ssl_verify
    call,       \* the session call whose outcome the caller holds (NoCall when idle)
    upload,     \* the FileUpload object
    uploadCall, \* the outcome of the last FileUpload operation
    ldapCall,   \* the outcome of the last LDAPServer.is_user_in_group
    group,      \* a group object's document: its membership lists
    groupHist,  \* the last group operations, to relate an add to the remove after it
    policy,     \* a policy object's document: the elements under scope
    policyHist, \* the last policy operation and the document before it
    deviceDoc,  \* a device object's document: the texts under general
    macCall     \* the outcome of the last hardware-address accessor

vars == <<jss, call, upload, uploadCall, ldapCall, group, groupHist, policy, policyHist,
          deviceDoc, macCall>>

(***************************************************************************)
(* Bounds of the model.                                                    *)
(***************************************************************************)
MaxChildren == 3

(***************************************************************************)
(* Python values.                                                          *)
(***************************************************************************)
\* A key given to get(): None, an int or a str.
KeyNone == [kind |-> "none", int |-> 0, str |-> ""]
KeyInt(n) == [kind |-> "int", int |-> n, str |-> ""]
KeyStr(s) == [kind |-> "str", int |-> 0, str |-> s]
Keys == {KeyNone, KeyInt(42), KeyStr("bob")}

\* str(x) of an int or a str.
str(k) == IF k.kind = "int" THEN ToString(k.int) ELSE k.str

(***************************************************************************)
(* Resource classes and their class attributes (the descriptor table).     *)
(***************************************************************************)
Classes ==
    {"Account", "AccountGroup", "ActivationCode", "Building", "BYOProfile",
     "Computer", "ComputerCheckIn", "ComputerCommand", "ComputerGroup",
     "ComputerInventoryCollection", "ComputerInvitation", "ComputerReport",
     "Department", "GSXConnection", "JSSUser", "MobileDevice",
     "MobileDeviceCommand", "MobileDeviceConfigurationProfile",
     "MobileDeviceGroup", "MobileDeviceInvitation", "Package", "Policy",
     "SavedSearch", "SMTPServer"}

url_(cls) ==
    CASE cls = "Account" -> "/accounts"
      [] cls = "AccountGroup" -> "/accounts"
      [] cls = "ActivationCode" -> "/activationcode"
      [] cls = "Building" -> "/buildings"
      [] cls = "BYOProfile" -> "/byoprofiles"
      [] cls = "Computer" -> "/computers"
      [] cls = "ComputerCheckIn" -> "/computercheckin"
      [] cls = "ComputerCommand" -> "/computercommands"
      [] cls = "ComputerGroup" -> "/computergroups"
      [] cls = "ComputerInventoryCollection" -> "/computerinventorycollection"
      [] cls = "ComputerInvitation" -> "/computerinvitations"
      [] cls = "ComputerReport" -> "/computerreports"
      [] cls = "Department" -> "/departments"
      [] cls = "GSXConnection" -> "/gsxconnection"
      [] cls = "JSSUser" -> "/jssuser"
      [] cls = "MobileDevice" -> "/mobiledevices"
      [] cls = "MobileDeviceCommand" -> "/mobiledevicecommands"
      [] cls = "MobileDeviceConfigurationProfile" -> "/mobiledeviceconfigurationprofiles"
      [] cls = "MobileDeviceGroup" -> "/mobiledevicegroups"
      [] cls = "MobileDeviceInvitation" -> "/mobiledeviceinvitations"
      [] cls = "Package" -> "/packages"
      [] cls = "Policy" -> "/policies"
      [] cls = "SavedSearch" -> "/savedsearches"
      [] cls = "SMTPServer" -> "/smtpserver"

\* id_url: the classes that set it; every other class keeps "/id/".
id_url(cls) ==
    CASE cls = "Account" -> "/userid/"
      [] cls = "AccountGroup" -> "/groupid/"
      [] cls = "SMTPServer" -> ""
      [] OTHER -> "/id/"

\* can_*: False for the classes that set it, True for every other class.
can_list(cls) ==
    cls \notin {"ActivationCode", "ComputerCheckIn", "ComputerInventoryCollection",
                "GSXConnection", "JSSUser", "SMTPServer"}

can_get(cls) == cls \in Classes

can_post(cls) ==
    cls \notin {"ActivationCode", "BYOProfile", "ComputerCheckIn", "ComputerCommand",
                "ComputerInventoryCollection", "ComputerReport", "GSXConnection",
                "JSSUser", "MobileDeviceCommand", "SavedSearch", "SMTPServer"}

can_put_not_for_check_in(cls) ==
    cls \notin {"ComputerCheckIn", "ComputerCommand", "ComputerInvitation",
                "ComputerReport", "JSSUser", "MobileDeviceCommand",
                "MobileDeviceInvitation", "SavedSearch"}

can_put(cls) ==
    cls \notin {"ComputerCommand", "ComputerInvitation", "ComputerReport", "JSSUser",
                "MobileDeviceCommand", "MobileDeviceInvitation", "SavedSearch"}

can_delete(cls) ==
    cls \notin {"ActivationCode", "BYOProfile", "ComputerCheckIn", "ComputerCommand",
                "ComputerInventoryCollection", "ComputerReport", "GSXConnection",
                "JSSUser", "MobileDeviceCommand", "SavedSearch"}

\* The capabilities the body of a class sets to False.
Overrides(cls) ==
    CASE cls = "ActivationCode" -> {"delete", "post", "list"}
      [] cls = "BYOProfile" -> {"delete", "post"}
      [] cls = "ComputerCheckIn" -> {"delete", "list", "post"}
      [] cls = "ComputerCommand" -> {"delete", "put", "post"}
      [] cls = "ComputerInventoryCollection" -> {"list", "post", "delete"}
      [] cls = "ComputerInvitation" -> {"put"}
      [] cls = "ComputerReport" -> {"put", "post", "delete"}
      [] cls = "GSXConnection" -> {"list", "post", "delete"}
      [] cls = "JSSUser" -> {"list", "post", "put", "delete"}
      [] cls = "MobileDeviceCommand" -> {"put", "delete", "post"}
      [] cls = "MobileDeviceInvitation" -> {"put"}
      [] cls = "SavedSearch" -> {"put", "post", "delete"}
      [] cls = "SMTPServer" -> {"list", "post"}
      [] OTHER -> {}

(***************************************************************************)
(* HTTP responses.  A body is text; ElementTree.fromstring either parses   *)
(* it to its root element (here: the root's children, in order) or raises  *)
(* ParseError.                                                             *)
(***************************************************************************)
Statuses == {200, 201, 400, 401, 404, 500}

SizeElements == {[tag |-> "size", text |-> ToString(n)] : n \in {1, 2}}
ItemElements == {[tag |-> "computer", text |-> t] : t \in {"1", "2"}}
Elements == SizeElements \cup ItemElements

SeqsUpTo(S, n) == UNION {[1..k -> S] : k \in 0..n}

Bodies ==
    {[wellformed |-> FALSE, children |-> <<>>]}
    \cup {[wellformed |-> TRUE, children |-> kids] : kids \in SeqsUpTo(Elements, MaxChildren)}

Responses == [status_code : Statuses, text : Bodies]

NoResponse == [status_code |-> 0, text |-> [wellformed |-> FALSE, children |-> <<>>]]

(***************************************************************************)
(* JSS (jss.py).                                                           *)
(***************************************************************************)
None == [kind |-> "None", items |-> <<>>]
Element(kids) == [kind |-> "Element", items |-> kids]
List(objs) == [kind |-> "list", items |-> objs]

Returned(v) == [raised |-> "", msg |-> "", value |-> v]
Raised(e, m) == [raised |-> e, msg |-> m, value |-> None]

\* JSS.__init__
JSS_init(url, user, password, ssl_verify) ==
    [url |-> url, _url |-> url \o "/JSSResource", user |-> user,
     password |-> password, ssl_verify |-> ssl_verify]

\* The request requests.get(url, auth=(user, password), verify=ssl_verify) sends.
Request(verb, url) ==
    [verb |-> verb, url |-> url, auth |-> <<jss.user, jss.password>>,
     verify |-> jss.ssl_verify]

get_request_skips_401(url, response) ==
    IF response.status_code = 404
    THEN Raised("JSSGetError", "Object " \o url \o " does not exist!")
    ELSE IF response.text.wellformed
         THEN Returned(Element(response.text.children))
         ELSE Raised("ParseError", "")

get_request_misses_404(url, response) ==
    IF response.status_code = 401
    THEN Raised("JSSAuthenticationError",
                "Authentication error: check the api username and password")
    ELSE IF response.text.wellformed
         THEN Returned(Element(response.text.children))
         ELSE Raised("ParseError", "")

\* JSS.get_request, after requests.get has returned `response`.
get_request(url, response) ==
    IF response.status_code = 401
    THEN Raised("JSSAuthenticationError",
                "Authentication error: check the api username and password")
    ELSE IF response.status_code = 404
    THEN Raised("JSSGetError", "Object " \o url \o " does not exist!")
    ELSE IF response.text.wellformed
         THEN Returned(Element(response.text.children))
         ELSE Raised("ParseError", "")

\* The url JSS.get asks for.
get_url(obj_class, id_) ==
    IF id_ # KeyNone
    THEN jss._url \o url_(obj_class) \o "/id/" \o str(id_)
    ELSE jss._url \o url_(obj_class)

\* JSSObject.__init__(jss, data) with an Element as data: no request.
JSSObject(cls, item) == [cls |-> cls, xml |-> item]

Map(f(_), s) == [i \in DOMAIN s |-> f(s[i])]

list_keeps_size(obj_class, xmldata) ==
    LET wrap(item) == JSSObject(obj_class, item)
    IN  Map(wrap, xmldata)

\* The list JSS.list builds from the children of the response's root.
list_objects(obj_class, xmldata) ==
    LET wrap(item) == JSSObject(obj_class, item)
        keep(item) == item.tag # "size"
    IN  Map(wrap, SelectSeq(xmldata, keep))

NoCall ==
    [op |-> "", cls |-> "", key |-> KeyNone, url |-> "", sent |-> <<>>,
     response |-> NoResponse, raised |-> "", msg |-> "", value |-> None]

Call(op, cls, key, url, sent, response, outcome) ==
    [op |-> op, cls |-> cls, key |-> key, url |-> url, sent |-> sent,
     response |-> response, raised |-> outcome.raised, msg |-> outcome.msg,
     value |-> outcome.value]

\* JSS.get(obj_class, id_)
JSS_get ==
    /\ call = NoCall
    /\ \E obj_class \in Classes, id_ \in Keys, response \in Responses :
         LET url == get_url(obj_class, id_)
         IN  call' = Call("get", obj_class, id_, url, <<Request("GET", url)>>,
                          response, get_request(url, response))
    /\ UNCHANGED <<deviceDoc, macCall, jss, upload, uploadCall, ldapCall, group, groupHist, policy, policyHist>>

\* JSS.raw_get(path)
JSS_raw_get ==
    /\ call = NoCall
    /\ \E path \in {"/computers/name/mac-01"}, response \in Responses :
         LET url == jss._url \o path
         IN  call' = Call("raw_get", "", KeyNone, url, <<Request("GET", url)>>,
                          response, get_request(url, response))
    /\ UNCHANGED <<deviceDoc, macCall, jss, upload, uploadCall, ldapCall, group, groupHist, policy, policyHist>>

\* JSS.list(obj_class)
JSS_list ==
    /\ call = NoCall
    /\ \E obj_class \in Classes, response \in Responses :
         LET url == jss._url \o url_(obj_class)
             xmldata == get_request(url, response)
             outcome == IF xmldata.raised # "" THEN xmldata
                        ELSE Returned(List(list_objects(obj_class, xmldata.value.items)))
         IN  call' = Call("list", obj_class, KeyNone, url, <<Request("GET", url)>>,
                          response, outcome)
    /\ UNCHANGED <<deviceDoc, macCall, jss, upload, uploadCall, ldapCall, group, groupHist, policy, policyHist>>

\* JSS.post(url), JSS.put(url), JSS.delete(url): the body is `pass`.  The caller
\* passes the address of a class (post) or of one of its objects (put, delete).
JSS_post ==
    /\ call = NoCall
    /\ \E obj_class \in Classes :
         call' = Call("post", obj_class, KeyNone, get_url(obj_class, KeyNone), <<>>,
                      NoResponse, Returned(None))
    /\ UNCHANGED <<deviceDoc, macCall, jss, upload, uploadCall, ldapCall, group, groupHist, policy, policyHist>>

JSS_put ==
    /\ call = NoCall
    /\ \E obj_class \in Classes, id_ \in Keys \ {KeyNone} :
         call' = Call("put", obj_class, id_, get_url(obj_class, id_), <<>>,
                      NoResponse, Returned(None))
    /\ UNCHANGED <<deviceDoc, macCall, jss, upload, uploadCall, ldapCall, group, groupHist, policy, policyHist>>

JSS_delete ==
    /\ call = NoCall
    /\ \E obj_class \in Classes, id_ \in Keys \ {KeyNone} :
         call' = Call("delete", obj_class, id_, get_url(obj_class, id_), <<>>,
                      NoResponse, Returned(None))
    /\ UNCHANGED <<deviceDoc, macCall, jss, upload, uploadCall, ldapCall, group, groupHist, policy, policyHist>>

\* Already parsed elements a caller may construct an object from.
ParsedElements == {Element(<<>>), Element(<<[tag |-> "computer", text |-> "1"]>>)}

\* The object a constructor hands to its caller.
Object(cls, xml) == [kind |-> "object", items |-> <<JSSObject(cls, xml)>>]

needs_get_for_int_only(data) == data.kind = "none" \/ data.kind \in {"int"}

\* data is None or type(data) in [int, str]
needs_get(data) == data.kind = "none" \/ data.kind \in {"int", "str"}

\* JSSObject.__init__(jss, data) of a resource class: data is None, a key or an
\* element.
JSSObject_init ==
    /\ call = NoCall
    /\ \E cls \in Classes, data \in Keys \cup ParsedElements, response \in Responses :
         IF needs_get(data)
         THEN LET url == get_url(cls, data)
                  got == get_request(url, response)
              IN  call' = Call("__init__", cls, data, url, <<Request("GET", url)>>,
                               response,
                               IF got.raised # "" THEN got
                               ELSE Returned(Object(cls, got.value)))
         ELSE call' = Call("__init__", cls, data, "", <<>>, NoResponse,
                           Returned(Object(cls, data)))
    /\ UNCHANGED <<deviceDoc, macCall, jss, upload, uploadCall, ldapCall, group, groupHist, policy, policyHist>>

\* The caller takes the outcome of the call; the session is ready for the next.
Return ==
    /\ call # NoCall
    /\ call' = NoCall
    /\ UNCHANGED <<deviceDoc, macCall, jss, upload, uploadCall, ldapCall, group, groupHist, policy, policyHist>>

(***************************************************************************)
(* FileUpload (jss/jssobjects.py).                                         *)
(***************************************************************************)
resource_types ==
    <<"computers", "mobiledevices", "enrollmentprofiles", "peripherals", "policies",
      "ebooks", "mobiledeviceapplicationsicon", "mobiledeviceapplicationsipa",
      "diskencryptionconfigurations">>
id_types == <<"id", "name">>

In(x, lst) == \E i \in DOMAIN lst : lst[i] = x

\* "/".join(parts)
RECURSIVE join(_, _)
join(sep, parts) ==
    IF parts = <<>> THEN ""
    ELSE IF Len(parts) = 1 THEN parts[1]
    ELSE parts[1] \o sep \o join(sep, Tail(parts))

\* Files a caller may name: os.path.basename(resource), and whether open() succeeds.
Files ==
    {[path |-> "/tmp/icon.png", basename |-> "icon.png", readable |-> TRUE],
     [path |-> "/tmp/missing.png", basename |-> "missing.png", readable |-> FALSE]}

NoUpload ==
    [built |-> FALSE, resource_type |-> "", id_type |-> "", _id |-> "",
     resource |-> "", _upload_url |-> ""]

NoUploadCall ==
    [op |-> "", resource_type |-> "", id_type |-> "", raised |-> "",
     sent |-> <<>>, status_code |-> 0]

UploadCall(op, resource_type, id_type, raised, sent, status_code) ==
    [op |-> op, resource_type |-> resource_type, id_type |-> id_type,
     raised |-> raised, sent |-> sent, status_code |-> status_code]

\* FileUpload._set_upload_url: the url built from the object's attributes.
_set_upload_url(self) ==
    join("/", <<jss._url, "fileuploads", self.resource_type, self.id_type, str(KeyStr(self._id))>>)

\* What FileUpload.__init__ raises, "" when it returns.
init_checks_nothing(resource_type, id_type, resource) ==
    IF ~resource.readable THEN "IOError" ELSE ""

init_raises(resource_type, id_type, resource) ==
    IF ~In(resource_type, resource_types) THEN "JSSFileUploadParameterError"
    ELSE IF ~In(id_type, id_types) THEN "JSSFileUploadParameterError"
    ELSE IF ~resource.readable THEN "IOError"
    ELSE ""

\* FileUpload(j, resource_type, id_type, _id, resource)
FileUpload_init ==
    /\ ~upload.built
    /\ \E resource_type \in {resource_types[i] : i \in DOMAIN resource_types} \cup {"widgets"},
          id_type \in {"id", "name", "serial"},
          _id \in Keys \ {KeyNone},
          resource \in Files :
         LET raised == init_raises(resource_type, id_type, resource)
             self == [built |-> TRUE, resource_type |-> resource_type,
                      id_type |-> id_type, _id |-> str(_id),
                      resource |-> resource.basename, _upload_url |-> ""]
         IN  /\ upload' = IF raised = "" THEN [self EXCEPT !._upload_url = _set_upload_url(self)]
                          ELSE upload
             /\ uploadCall' = UploadCall("__init__", resource_type, id_type, raised, <<>>, 0)
    /\ UNCHANGED <<deviceDoc, macCall, jss, call, ldapCall, group, groupHist, policy, policyHist>>

\* The caller assigns an attribute of the object (upload.resource_type = ...).
FileUpload_setattr ==
    /\ upload.built
    /\ \/ \E v \in {"computers", "policies", "widgets"} :
            upload' = [upload EXCEPT !.resource_type = v]
       \/ \E v \in {"id", "name"} : upload' = [upload EXCEPT !.id_type = v]
       \/ \E v \in {"42", "bob"} : upload' = [upload EXCEPT !._id = v]
    /\ upload' # upload
    /\ uploadCall' = UploadCall("setattr", "", "", "", <<>>, 0)
    /\ UNCHANGED <<deviceDoc, macCall, jss, call, ldapCall, group, groupHist, policy, policyHist>>

\* tools.error_handler(exception_cls, response): raises exception_cls.
error_handler(exception_cls, response) == exception_cls

save_raises_above_400(status_code) ==
    IF status_code = 201 THEN ""
    ELSE IF status_code > 400 THEN error_handler("JSSPostError", status_code)
    ELSE ""

\* FileUpload.save, after requests.post has returned a response with this status.
save_raises(status_code) ==
    IF status_code = 201 THEN ""
    ELSE IF status_code >= 400 THEN error_handler("JSSPostError", status_code)
    ELSE ""

FileUpload_save ==
    /\ upload.built
    /\ \E status_code \in Statuses :
         uploadCall' = UploadCall("save", "", "", save_raises(status_code),
                                  <<Request("POST", upload._upload_url)>>, status_code)
    /\ UNCHANGED <<deviceDoc, macCall, jss, call, upload, ldapCall, group, groupHist, policy, policyHist>>

(***************************************************************************)
(* LDAPServer.is_user_in_group (jss/jssobjects.py).                        *)
(*                                                                         *)
(* The response is the root element jss.get returned; its children are     *)
(* a size element and ldap_user records with a username and an is_member   *)
(* child.                                                                  *)
(***************************************************************************)
MaxEntries == 3

Users == {"alice", "bob"}
LdapEntries ==
    {[tag |-> "size", username |-> "", is_member |-> ""]}
    \cup {[tag |-> "ldap_user", username |-> u, is_member |-> m] :
            u \in Users, m \in {"Yes", "No"}}
LdapResponses == SeqsUpTo(LdapEntries, MaxEntries)

NoText == "None"

\* response.findtext("ldap_user/<child>"): the text of the first match, or None.
findtext(response, tag, child) ==
    LET hits == {i \in DOMAIN response : response[i].tag = tag}
    IN  IF hits = {} THEN NoText
        ELSE LET first == CHOOSE i \in hits : \A j \in hits : i <= j
             IN  IF child = "username" THEN response[first].username
                 ELSE response[first].is_member

NoLdapCall ==
    [user |-> "", group |-> "", response |-> <<>>, url |-> "",
     raised |-> "", msg |-> "", result |-> FALSE]

is_user_in_group_any_is_member(user, response) ==
    LET length == Len(response)
    IN  IF length = 1 THEN [raised |-> "", msg |-> "", result |-> FALSE]
        ELSE IF length = 2
        THEN [raised |-> "", msg |-> "",
              result |-> (findtext(response, "ldap_user", "username") = user)]
        ELSE IF length >= 2
        THEN [raised |-> "JSSGetError", msg |-> "Unexpected response.", result |-> FALSE]
        ELSE [raised |-> "", msg |-> "", result |-> FALSE]

\* The outcome of is_user_in_group once jss.get has returned `response`.
is_user_in_group(user, response) ==
    LET length == Len(response)
    IN  IF length = 1 THEN [raised |-> "", msg |-> "", result |-> FALSE]
        ELSE IF length = 2
        THEN [raised |-> "", msg |-> "",
              result |-> (/\ findtext(response, "ldap_user", "username") = user
                          /\ findtext(response, "ldap_user", "is_member") = "Yes")]
        ELSE IF length >= 2
        THEN [raised |-> "JSSGetError", msg |-> "Unexpected response.", result |-> FALSE]
        ELSE [raised |-> "", msg |-> "", result |-> FALSE]

LDAPServer_is_user_in_group ==
    /\ ldapCall = NoLdapCall
    /\ \E user \in Users, grp \in {"staff"}, response \in LdapResponses :
         LET search_url == join("/", <<"/ldapservers/id/1", "group", grp, "user", user>>)
             out == is_user_in_group(user, response)
         IN  ldapCall' = [user |-> user, group |-> grp, response |-> response,
                          url |-> search_url, raised |-> out.raised, msg |-> out.msg,
                          result |-> out.result]
    /\ UNCHANGED <<deviceDoc, macCall, jss, call, upload, uploadCall, group, groupHist, policy, policyHist>>

LdapReturn ==
    /\ ldapCall # NoLdapCall
    /\ ldapCall' = NoLdapCall
    /\ UNCHANGED <<deviceDoc, macCall, jss, call, upload, uploadCall, group, groupHist, policy, policyHist>>

(***************************************************************************)
(* Membership lists (jss/jssobject.py, not in the sources at hand: from    *)
(* the design's Scoped-Membership Mutator).  A list element is present or  *)
(* not, and holds reference records {id, name} in order.                   *)
(***************************************************************************)
MaxMembers == 3

Members == [id : {"1", "2"}, name : {"a", "b"}]
NoMember == [id |-> "", name |-> ""]
NoList == [present |-> FALSE, refs |-> <<>>]

RemoveAt(s, i) == SubSeq(s, 1, i - 1) \o SubSeq(s, i + 1, Len(s))

\* as_list_data: the reference record of an object.
Ref(obj) == [id |-> obj.id, name |-> obj.name]

\* addMember: locate or create the list element, append the reference.
addMember(lst, memberRef) == [present |-> TRUE, refs |-> Append(lst.refs, memberRef)]

\* removeMember: remove the first reference matching the member's id or name;
\* no match is a no-op.
removeMember(lst, memberRef) ==
    LET hits == {i \in DOMAIN lst.refs :
                   lst.refs[i].id = memberRef.id \/ lst.refs[i].name = memberRef.name}
    IN  IF hits = {} THEN lst
        ELSE [lst EXCEPT !.refs = RemoveAt(@, CHOOSE i \in hits : \A j \in hits : i <= j)]

\* JSSGroupObject.add_device(device, container)
add_device(self, device, container) ==
    [self EXCEPT !.xml[container] = addMember(@, Ref(device))]

\* JSSObject.remove_object_from_list(obj, list_element)
remove_object_from_list(self, obj, list_element) ==
    [self EXCEPT !.xml[list_element] = removeMember(@, Ref(obj))]

(***************************************************************************)
(* ComputerGroup and MobileDeviceGroup (jss/jssobjects.py).                *)
(***************************************************************************)
ListNames == {"computers", "mobile_devices"}

add_computer(self, computer) == add_device(self, computer, "computers")

remove_computer_from_mobile_devices(self, computer) ==
    remove_object_from_list(self, computer, "mobile_devices")

remove_computer(self, computer) == remove_object_from_list(self, computer, "computers")

add_mobile_device(self, device) == add_device(self, device, "mobile_devices")

remove_mobile_device(self, device) ==
    remove_object_from_list(self, device, "mobile_devices")

\* The membership list of a group: computers or mobile_devices.
OwnList(cls) == IF cls = "ComputerGroup" THEN "computers" ELSE "mobile_devices"

NoGroupHist == [op |-> "", member |-> NoMember, before |-> <<>>]

\* The history after an add: the member and the list before it.
AfterAdd(member) ==
    [op |-> "add", member |-> member, before |-> group.xml[OwnList(group.cls)].refs]

\* The history after a remove: it closes an add of the same member, if that was
\* the operation before it.
AfterRemove(member) ==
    IF groupHist.op = "add" /\ groupHist.member = member
    THEN [groupHist EXCEPT !.op = "add;remove"]
    ELSE [op |-> "remove", member |-> member,
          before |-> group.xml[OwnList(group.cls)].refs]

ComputerGroup_add_computer ==
    /\ group.cls = "ComputerGroup"
    /\ Len(group.xml["computers"].refs) < MaxMembers
    /\ \E computer \in Members :
         /\ group' = add_computer(group, computer)
         /\ groupHist' = AfterAdd(computer)
    /\ UNCHANGED <<deviceDoc, macCall, jss, call, upload, uploadCall, ldapCall, policy, policyHist>>

ComputerGroup_remove_computer ==
    /\ group.cls = "ComputerGroup"
    /\ \E computer \in Members :
         /\ group' = remove_computer(group, computer)
         /\ groupHist' = AfterRemove(computer)
    /\ UNCHANGED <<deviceDoc, macCall, jss, call, upload, uploadCall, ldapCall, policy, policyHist>>

MobileDeviceGroup_add_mobile_device ==
    /\ group.cls = "MobileDeviceGroup"
    /\ Len(group.xml["mobile_devices"].refs) < MaxMembers
    /\ \E device \in Members :
         /\ group' = add_mobile_device(group, device)
         /\ groupHist' = AfterAdd(device)
    /\ UNCHANGED <<deviceDoc, macCall, jss, call, upload, uploadCall, ldapCall, policy, policyHist>>

MobileDeviceGroup_remove_mobile_device ==
    /\ group.cls = "MobileDeviceGroup"
    /\ \E device \in Members :
         /\ group' = remove_mobile_device(group, device)
         /\ groupHist' = AfterRemove(device)
    /\ UNCHANGED <<deviceDoc, macCall, jss, call, upload, uploadCall, ldapCall, policy, policyHist>>

(***************************************************************************)
(* Policy (jss/jssobjects.py).  The document is the set of elements that   *)
(* are present, each named by its path of tags from the root, and the      *)
(* reference records each one holds.                                       *)
(***************************************************************************)
MaxAdds == 2

\* The element a slash-delimited path names: its tags, by sequential descent.
split(path) ==
    CASE path = "scope/computers" -> <<"scope", "computers">>
      [] path = "scope/computer_groups" -> <<"scope", "computer_groups">>
      [] path = "scope/buildings" -> <<"scope", "buildings">>
      [] path = "scope/departments" -> <<"scope", "departments">>
      [] path = "scope/limit_to_users/user_groups" -> <<"scope", "limit_to_users", "user_groups">>
      [] path = "scope/limitations/users" -> <<"scope", "limitations", "users">>
      [] path = "scope/limitations/user_groups" -> <<"scope", "limitations", "user_groups">>
      [] path = "scope/limitations/network_segments" -> <<"scope", "limitations", "network_segments">>
      [] path = "scope/exclusions" -> <<"scope", "exclusions">>
      [] path = "scope/exclusions/computers" -> <<"scope", "exclusions", "computers">>
      [] path = "scope/exclusions/computer_groups" -> <<"scope", "exclusions", "computer_groups">>
      [] path = "scope/exclusions/buildings" -> <<"scope", "exclusions", "buildings">>
      [] path = "scope/exclusions/departments" -> <<"scope", "exclusions", "departments">>
      [] path = "scope/exclusions/users" -> <<"scope", "exclusions", "users">>
      [] path = "scope/exclusions/user_groups" -> <<"scope", "exclusions", "user_groups">>
      [] path = "scope/exclusions/network_segments" -> <<"scope", "exclusions", "network_segments">>
      [] path = "package_configuration/packages" -> <<"package_configuration", "packages">>

\* The membership list elements a policy's scope can hold.
ScopeLists ==
    {<<"scope", "computers">>, <<"scope", "computer_groups">>, <<"scope", "buildings">>,
     <<"scope", "buldings">>, <<"scope", "departments">>,
     <<"scope", "limit_to_users", "user_groups">>,
     <<"scope", "limitations", "users">>, <<"scope", "limitations", "user_groups">>,
     <<"scope", "limitations", "network_segments">>,
     <<"scope", "exclusions", "computers">>, <<"scope", "exclusions", "computer_groups">>,
     <<"scope", "exclusions", "buildings">>, <<"scope", "exclusions", "departments">>,
     <<"scope", "exclusions", "users">>, <<"scope", "exclusions", "user_groups">>,
     <<"scope", "exclusions", "network_segments">>}

Prefixes(p) == {SubSeq(p, 1, k) : k \in 1..Len(p)}

\* q lies strictly below p.
Below(q, p) == Len(q) > Len(p) /\ SubSeq(q, 1, Len(p)) = p

\* A document: the elements present, and the references and the text of each.
Document(present, refs(_), text(_)) ==
    [present |-> present, refs |-> [p \in present |-> refs(p)],
     text |-> [p \in present |-> text(p)]]

BlankPolicy == Document({}, LAMBDA p : <<>>, LAMBDA p : "")

RefsAt(self, p) == IF p \in self.present THEN self.refs[p] ELSE <<>>
TextAt(self, p) == IF p \in self.present THEN self.text[p] ELSE ""

\* set_bool(element, value): the text "true" or "false".
set_bool(value) == IF value THEN "true" ELSE "false"

\* Policy.new(name, category): the elements ElementTree.SubElement appends.
new(self, name, category) ==
    LET made ==
            {<<"general">>, <<"general", "name">>, <<"general", "enabled">>,
             <<"general", "frequency">>, <<"general", "category">>,
             <<"scope">>, <<"scope", "computers">>, <<"scope", "computer_groups">>,
             <<"scope", "buldings">>, <<"scope", "departments">>,
             <<"scope", "exclusions">>, <<"scope", "exclusions", "computers">>,
             <<"scope", "exclusions", "computer_groups">>,
             <<"scope", "exclusions", "buildings">>,
             <<"scope", "exclusions", "departments">>,
             <<"self_service">>, <<"self_service", "use_for_self_service">>,
             <<"package_configuration">>, <<"package_configuration", "packages">>,
             <<"maintenance">>, <<"maintenance", "recon">>}
            \cup (IF category # "" THEN {<<"general", "category", "name">>} ELSE {})
        texts(p) ==
            CASE p = <<"general", "name">> -> name
              [] p = <<"general", "enabled">> -> set_bool(TRUE)
              [] p = <<"general", "frequency">> -> "Once per computer"
              [] p = <<"general", "category", "name">> -> category
              [] p = <<"self_service", "use_for_self_service">> -> set_bool(TRUE)
              [] p = <<"maintenance", "recon">> -> set_bool(TRUE)
              [] OTHER -> TextAt(self, p)
    IN  Document(self.present \cup made, LAMBDA p : RefsAt(self, p), texts)

\* JSSObject.add_object_to_path(obj, location): addMember on the list at the path.
add_object_to_path(self, obj, location) ==
    LET p == split(location)
    IN  Document(self.present \cup Prefixes(p),
                 LAMBDA q : IF q = p THEN Append(RefsAt(self, p), Ref(obj))
                            ELSE RefsAt(self, q),
                 LAMBDA q : TextAt(self, q))

\* JSSObject.clear_list(list_element): the element stays, its children go.
clear_list(self, list_element) ==
    LET p == split(list_element)
    IN  IF p \notin self.present THEN self
        ELSE Document({q \in self.present : ~Below(q, p)},
                      LAMBDA q : IF q = p THEN <<>> ELSE self.refs[q],
                      LAMBDA q : IF q = p THEN "" ELSE self.text[q])

scope_path_building_to_exclusions(cls) ==
    CASE cls = "Computer" -> "scope/computers"
      [] cls = "ComputerGroup" -> "scope/computer_groups"
      [] cls = "Building" -> "scope/exclusions/buildings"
      [] cls = "Department" -> "scope/departments"
      [] OTHER -> ""

\* The path add_object_to_scope adds an object of this class to ("": TypeError).
scope_path(cls) ==
    CASE cls = "Computer" -> "scope/computers"
      [] cls = "ComputerGroup" -> "scope/computer_groups"
      [] cls = "Building" -> "scope/buildings"
      [] cls = "Department" -> "scope/departments"
      [] OTHER -> ""

exclusions_path(cls) ==
    CASE cls = "Computer" -> "scope/exclusions/computers"
      [] cls = "ComputerGroup" -> "scope/exclusions/computer_groups"
      [] cls = "Building" -> "scope/exclusions/buildings"
      [] cls = "Department" -> "scope/exclusions/departments"
      [] OTHER -> ""

clears_the_exclusions_block ==
    <<"computers", "computer_groups", "buildings", "departments",
      "limit_to_users/user_groups", "limitations/users", "limitations/user_groups",
      "limitations/network_segments", "exclusions">>

\* clear_scope's clear_list.
sections ==
    <<"computers", "computer_groups", "buildings", "departments",
      "limit_to_users/user_groups", "limitations/users", "limitations/user_groups",
      "limitations/network_segments", "exclusions/computers",
      "exclusions/computer_groups", "exclusions/buildings", "exclusions/departments",
      "exclusions/users", "exclusions/user_groups", "exclusions/network_segments">>

\* for section in clear_list: self.clear_list("scope/" + section)
RECURSIVE clear_each(_, _)
clear_each(self, todo) ==
    IF todo = <<>> THEN self
    ELSE clear_each(clear_list(self, "scope/" \o Head(todo)), Tail(todo))

clear_scope(self) == clear_each(self, sections)

\* Objects a caller may add to a policy.
Objects ==
    {[cls |-> "Computer", id |-> "1", name |-> "mac-01"],
     [cls |-> "ComputerGroup", id |-> "2", name |-> "labs"],
     [cls |-> "Building", id |-> "3", name |-> "hq"],
     [cls |-> "Department", id |-> "4", name |-> "it"],
     [cls |-> "Package", id |-> "5", name |-> "firefox.pkg"]}
NoObject == [cls |-> "", id |-> "", name |-> ""]

\* Policies fetched from the server: every scope list, or a few of them, each
\* holding one reference.
Held == <<[id |-> "9", name |-> "old"]>>
FetchedLists(lists) ==
    Document(UNION {Prefixes(p) : p \in lists} \cup {<<"general">>, <<"general", "name">>},
             LAMBDA p : IF p \in lists THEN Held ELSE <<>>,
             LAMBDA p : IF p = <<"general", "name">> THEN "Install Firefox" ELSE "")
FetchedPolicies ==
    {FetchedLists(ScopeLists \ {<<"scope", "buldings">>}),
     FetchedLists({<<"scope", "computers">>, <<"scope", "exclusions", "computers">>,
                   <<"scope", "limitations", "users">>})}

NoPolicyHist ==
    [op |-> "", obj |-> NoObject, raised |-> "", before |-> BlankPolicy, adds |-> 0]

PolicyHist(op, obj, raised, adds) ==
    [op |-> op, obj |-> obj, raised |-> raised, before |-> policy, adds |-> adds]

\* Policy.new on a policy object that holds no document yet.
Policy_new ==
    /\ policy = BlankPolicy
    /\ \E name \in {"Unknown", "Install Firefox"}, category \in {"", "Apps"} :
         policy' = new(policy, name, category)
    /\ policyHist' = PolicyHist("new", NoObject, "", 0)
    /\ UNCHANGED <<deviceDoc, macCall, jss, call, upload, uploadCall, ldapCall, group, groupHist>>

Policy_add_object_to_scope ==
    /\ policy # BlankPolicy
    /\ policyHist.adds < MaxAdds
    /\ \E obj \in Objects :
         LET path == scope_path(obj.cls)
         IN  /\ policy' = IF path = "" THEN policy
                          ELSE add_object_to_path(policy, obj, path)
             /\ policyHist' = PolicyHist("add_object_to_scope", obj,
                                         IF path = "" THEN "TypeError" ELSE "",
                                         policyHist.adds + 1)
    /\ UNCHANGED <<deviceDoc, macCall, jss, call, upload, uploadCall, ldapCall, group, groupHist>>

Policy_add_object_to_exclusions ==
    /\ policy # BlankPolicy
    /\ policyHist.adds < MaxAdds
    /\ \E obj \in Objects :
         LET path == exclusions_path(obj.cls)
         IN  /\ policy' = IF path = "" THEN policy
                          ELSE add_object_to_path(policy, obj, path)
             /\ policyHist' = PolicyHist("add_object_to_exclusions", obj,
                                         IF path = "" THEN "TypeError" ELSE "",
                                         policyHist.adds + 1)
    /\ UNCHANGED <<deviceDoc, macCall, jss, call, upload, uploadCall, ldapCall, group, groupHist>>

Policy_clear_scope ==
    /\ policy # BlankPolicy
    /\ policyHist.op # "clear_scope"
    /\ policy' = clear_scope(policy)
    /\ policyHist' = PolicyHist("clear_scope", NoObject, "", policyHist.adds)
    /\ UNCHANGED <<deviceDoc, macCall, jss, call, upload, uploadCall, ldapCall, group, groupHist>>

(***************************************************************************)
(* Computer and MobileDevice: the hardware-address accessors                 *)
(* (jss/jssobjects.py).  A device document holds, under general, the        *)
(* elements that are there, each with its text.                             *)
(***************************************************************************)
MacTexts == {"", "00:1e:c2:00:00:01", "00:1e:c2:00:00:02"}

\* Element.findtext("general/<tag>"): the text of the element, "" when it has
\* none, None when the element is not there.
findtext_general(self, tag) ==
    IF tag \in DOMAIN self.general THEN self.general[tag] ELSE NoText

\* The truth value of a findtext result: None and "" are false.
truth(text) == text # NoText /\ text # ""

\* A str result, or None.
Str(text) == IF text = NoText THEN None ELSE [kind |-> "str", items |-> <<text>>]

mac_addresses_returns_the_list(self) ==
    LET mac_addresses == <<findtext_general(self, "mac_address")>>
    IN  IF truth(findtext_general(self, "alt_mac_address"))
        THEN List(Append(mac_addresses, findtext_general(self, "alt_mac_address")))
        ELSE List(mac_addresses)

\* Computer.mac_addresses: the return statement is inside the if.
mac_addresses(self) ==
    LET mac_addresses == <<findtext_general(self, "mac_address")>>
    IN  IF truth(findtext_general(self, "alt_mac_address"))
        THEN List(Append(mac_addresses, findtext_general(self, "alt_mac_address")))
        ELSE None

\* MobileDevice.wifi_mac_address
wifi_mac_address(self) == Str(findtext_general(self, "wifi_mac_address"))

\* MobileDevice.bluetooth_mac_address
bluetooth_mac_address(self) ==
    IF truth(findtext_general(self, "bluetooth_mac_address"))
    THEN Str(findtext_general(self, "bluetooth_mac_address"))
    ELSE Str(findtext_general(self, "mac_address"))

\* The device documents a server returns.
Documents(cls, tags) ==
    {[cls |-> cls, general |-> g] : g \in UNION {[present -> MacTexts] : present \in SUBSET tags}}

Devices ==
    Documents("Computer", {"mac_address", "alt_mac_address"})
    \cup Documents("MobileDevice", {"mac_address", "wifi_mac_address", "bluetooth_mac_address"})

NoDevice == [cls |-> "", general |-> <<>>]
NoMacCall == [op |-> "", value |-> None]

Computer_mac_addresses ==
    /\ deviceDoc.cls = "Computer"
    /\ macCall' = [op |-> "mac_addresses", value |-> mac_addresses(deviceDoc)]
    /\ UNCHANGED <<deviceDoc, jss, call, upload, uploadCall, ldapCall, group, groupHist,
                   policy, policyHist>>

MobileDevice_wifi_mac_address ==
    /\ deviceDoc.cls = "MobileDevice"
    /\ macCall' = [op |-> "wifi_mac_address", value |-> wifi_mac_address(deviceDoc)]
    /\ UNCHANGED <<deviceDoc, jss, call, upload, uploadCall, ldapCall, group, groupHist,
                   policy, policyHist>>

MobileDevice_bluetooth_mac_address ==
    /\ deviceDoc.cls = "MobileDevice"
    /\ macCall' = [op |-> "bluetooth_mac_address", value |-> bluetooth_mac_address(deviceDoc)]
    /\ UNCHANGED <<deviceDoc, jss, call, upload, uploadCall, ldapCall, group, groupHist,
                   policy, policyHist>>

(***************************************************************************)
(* Specifications.                                                         *)
(***************************************************************************)
TheJSS == {JSS_init("https://jss.example.org:8443", "api", "secret", v) : v \in BOOLEAN}

Groups ==
    {[cls |-> c,
      xml |-> [l \in ListNames |->
                 IF l = OwnList(c) THEN [present |-> TRUE, refs |-> refs] ELSE NoList]] :
       c \in {"ComputerGroup", "MobileDeviceGroup"},
       refs \in SeqsUpTo(Members, MaxMembers - 1)}

\* What every specification starts from; each then varies its own part.
Idle ==
    /\ call = NoCall
    /\ upload = NoUpload
    /\ uploadCall = NoUploadCall
    /\ ldapCall = NoLdapCall
    /\ groupHist = NoGroupHist
    /\ policyHist = NoPolicyHist
    /\ macCall = NoMacCall

OneJSS == CHOOSE j \in TheJSS : j.ssl_verify
OneGroup == CHOOSE g \in Groups : g.cls = "ComputerGroup" /\ g.xml["computers"].refs = <<>>

\* The session: jss.py.
SessionInit ==
    /\ Idle
    /\ deviceDoc = NoDevice
    /\ jss \in TheJSS
    /\ group = OneGroup
    /\ policy = BlankPolicy

SessionNext ==
    \/ JSS_get
    \/ JSS_raw_get
    \/ JSS_list
    \/ JSS_post
    \/ JSS_put
    \/ JSS_delete
    \/ JSSObject_init
    \/ Return

Spec == SessionInit /\ [][SessionNext]_vars

\* File uploads.
UploadInit ==
    /\ Idle
    /\ deviceDoc = NoDevice
    /\ jss \in TheJSS
    /\ group = OneGroup
    /\ policy = BlankPolicy

UploadNext ==
    \/ FileUpload_init
    \/ FileUpload_setattr
    \/ FileUpload_save

UploadSpec == UploadInit /\ [][UploadNext]_vars

\* The LDAP query.
LdapInit ==
    /\ Idle
    /\ deviceDoc = NoDevice
    /\ jss = OneJSS
    /\ group = OneGroup
    /\ policy = BlankPolicy

LdapNext ==
    \/ LDAPServer_is_user_in_group
    \/ LdapReturn

LdapSpec == LdapInit /\ [][LdapNext]_vars

\* Groups.
GroupInit ==
    /\ Idle
    /\ deviceDoc = NoDevice
    /\ jss = OneJSS
    /\ group \in Groups
    /\ policy = BlankPolicy

GroupNext ==
    \/ ComputerGroup_add_computer
    \/ ComputerGroup_remove_computer
    \/ MobileDeviceGroup_add_mobile_device
    \/ MobileDeviceGroup_remove_mobile_device

GroupSpec == GroupInit /\ [][GroupNext]_vars

\* Policies.
PolicyInit ==
    /\ Idle
    /\ deviceDoc = NoDevice
    /\ jss = OneJSS
    /\ group = OneGroup
    /\ policy \in {BlankPolicy} \cup FetchedPolicies

PolicyNext ==
    \/ Policy_new
    \/ Policy_add_object_to_scope
    \/ Policy_add_object_to_exclusions
    \/ Policy_clear_scope

PolicySpec == PolicyInit /\ [][PolicyNext]_vars

\* Devices.
DeviceInit ==
    /\ Idle
    /\ jss = OneJSS
    /\ group = OneGroup
    /\ policy = BlankPolicy
    /\ deviceDoc \in Devices

DeviceNext ==
    \/ Computer_mac_addresses
    \/ MobileDevice_wifi_mac_address
    \/ MobileDevice_bluetooth_mac_address

DeviceSpec == DeviceInit /\ [][DeviceNext]_vars

(***************************************************************************)
(* The claims.                                                             *)
(***************************************************************************)
Sent == call.sent # <<>>
Status == call.response.status_code
Kids == call.response.text.children

\* C1: every request the session sends that is answered with status 401 ends in
\* JSSAuthenticationError, whatever the class, the path and the operation, and
\* no parsed document is handed to the caller.
C1_Unauthorized ==
    (Sent /\ Status = 401) => (call.raised = "JSSAuthenticationError" /\ call.value = None)

\* A list request answered 401 with a body that would parse.
C1_Witness ==
    /\ call.op = "list" /\ Sent /\ Status = 401
    /\ call.response.text.wellformed /\ Kids # <<>>

\* C2: every response with a status of 400 or more other than 401 and 404 makes
\* the call fail with the session's request failure, which carries the status
\* code and the body; its body is never parsed and returned.
C2_RequestFailure ==
    (Sent /\ Status >= 400 /\ Status \notin {401, 404}) =>
        (/\ call.raised = "JSSConnectionError"
         /\ call.msg = ToString(Status)
         /\ call.value = None)

\* The descriptor of the class permits the operation.
Permits(cls, op) ==
    CASE op = "list" -> can_list(cls)
      [] op = "get" -> can_get(cls)
      [] op = "post" -> can_post(cls)
      [] op = "put" -> can_put(cls)
      [] op = "delete" -> can_delete(cls)
      [] OTHER -> TRUE

\* C3: list, get, create (post), update (put) or delete on a class whose
\* descriptor disables the operation fails with JSSMethodNotAllowedError, and
\* the call sends no request.
C3_MethodNotAllowed ==
    (call.op \in {"list", "get", "post", "put", "delete"} /\ ~Permits(call.cls, call.op)) =>
        (call.raised = "JSSMethodNotAllowedError" /\ call.sent = <<>>)

NonSize(kids) == {i \in DOMAIN kids : kids[i].tag # "size"}
Declared(e) == CHOOSE n \in 0..(MaxChildren + 2) : ToString(n) = e.text

\* list() holds no entry built from a size element and one entry for each other
\* child of the response, in the response's order.
ListIsTheOtherChildren ==
    LET objs == call.value.items
        others == SelectSeq(Kids, LAMBDA e : e.tag # "size")
    IN  /\ \A i \in DOMAIN objs : objs[i].xml.tag # "size"
        /\ Len(objs) = Cardinality(NonSize(Kids))
        /\ \A i \in DOMAIN objs : objs[i] = [cls |-> call.cls, xml |-> others[i]]

\* C4, as amended: for every class and every list response, the result of list()
\* holds no entry built from a size element and one entry for each other child
\* in response order; its length is the number of those other children, and so
\* the number a size marker declares whenever the marker declares that number.
C4_ListSkipsSize ==
    (call.op = "list" /\ call.raised = "") =>
        (/\ ListIsTheOtherChildren
         /\ \A i \in DOMAIN Kids :
              (Kids[i].tag = "size" /\ Declared(Kids[i]) = Cardinality(NonSize(Kids))) =>
                  Len(call.value.items) = Declared(Kids[i]))

\* A list of two entries from a response of a size marker and two other children.
C4_Witness ==
    /\ call.op = "list" /\ call.raised = ""
    /\ Len(Kids) = 3 /\ Kids[1] = [tag |-> "size", text |-> "2"]
    /\ Kids[2] # Kids[3]
    /\ Len(call.value.items) = 2

\* C4, as claimed: ... and the length of the result is the number the size
\* marker declares, for every response that has one.
C4_LengthIsDeclared ==
    (call.op = "list" /\ call.raised = "") =>
        (/\ ListIsTheOtherChildren
         /\ \A i \in DOMAIN Kids :
              Kids[i].tag = "size" => Len(call.value.items) = Declared(Kids[i]))

\* C5: a get with key k asks for base + segment + the class's primary-key token
\* + k (policies and 42: {base}/policies/id/42; accounts: userid; account
\* groups: groupid), and a get with no key for base + segment.
C5_PrimaryKeyToken ==
    call.op = "get" =>
        call.sent[1].url =
            IF call.key = KeyNone THEN jss._url \o url_(call.cls)
            ELSE jss._url \o url_(call.cls) \o id_url(call.cls) \o str(call.key)

\* C6: a FileUpload constructed with a resource_type outside the nine values or
\* an id_type outside {id, name} fails with JSSFileUploadParameterError; no
\* request has been sent and no upload url has been built.
C6_ParameterError ==
    (/\ uploadCall.op = "__init__"
     /\ \/ uploadCall.resource_type \notin
             {"computers", "mobiledevices", "enrollmentprofiles", "peripherals",
              "policies", "ebooks", "mobiledeviceapplicationsicon",
              "mobiledeviceapplicationsipa", "diskencryptionconfigurations"}
        \/ uploadCall.id_type \notin {"id", "name"})
    => (/\ uploadCall.raised = "JSSFileUploadParameterError"
        /\ uploadCall.sent = <<>>
        /\ upload._upload_url = "")

\* A FileUpload for "widgets" has been refused.
C6_Witness ==
    /\ uploadCall.op = "__init__" /\ uploadCall.resource_type = "widgets"
    /\ uploadCall.id_type = "id" /\ uploadCall.raised # ""

UnexpectedResponse ==
    ldapCall.raised = "JSSGetError" /\ ldapCall.msg = "Unexpected response."

\* The nested ldap_user record (the first, in document order) names the user
\* asked for and says "Yes".
RecordConfirms ==
    LET r == ldapCall.response
        records == {i \in DOMAIN r : r[i].tag = "ldap_user"}
    IN  /\ records # {}
        /\ LET first == CHOOSE i \in records : \A j \in records : i <= j
           IN  r[first].username = ldapCall.user /\ r[first].is_member = "Yes"

\* C7: is_user_in_group returns false for a response of one entry; for a
\* response of two it returns true exactly if the nested ldap_user record has
\* the user's name and is_member "Yes"; a response of three or more entries
\* fails with the unexpected-response error.
C7_ByLength ==
    ldapCall # NoLdapCall =>
        LET n == Len(ldapCall.response)
        IN  /\ n = 1 => (ldapCall.raised = "" /\ ~ldapCall.result)
            /\ n = 2 => (ldapCall.raised = "" /\ (ldapCall.result <=> RecordConfirms))
            /\ n >= 3 => UnexpectedResponse

\* A response of two entries for which the answer is true.
C7_Witness ==
    /\ Len(ldapCall.response) = 2 /\ ldapCall.result
    /\ ldapCall.response[1].tag = "size"

\* C8: is_user_in_group fails with the unexpected-response error for every
\* response whose number of entries is not 1 or 2, the empty response included.
C8_OutsideOneTwo ==
    (ldapCall # NoLdapCall /\ Len(ldapCall.response) \notin {1, 2}) => UnexpectedResponse

Range(s) == {s[i] : i \in DOMAIN s}
Now == group.xml[OwnList(group.cls)].refs

\* An entry shares the member's id or name without being the member's reference.
PartialMatch(e, m) == (e.id = m.id \/ e.name = m.name) /\ e # m

\* C9, as amended: adding a member and then removing the same member leaves the
\* group's membership list with the set of entries it had before the add,
\* provided no entry the list had before shares only the id or only the name
\* with the member.
C9_AddThenRemove ==
    (/\ groupHist.op = "add;remove"
     /\ \A e \in Range(groupHist.before) : ~PartialMatch(e, groupHist.member))
    => Range(Now) = Range(groupHist.before)

\* An add and a remove of a member of a list that already held two entries, one
\* of them the member's own reference.
C9_Witness ==
    /\ groupHist.op = "add;remove"
    /\ Len(groupHist.before) = 2
    /\ groupHist.member \in Range(groupHist.before)
    /\ \A e \in Range(groupHist.before) : ~PartialMatch(e, groupHist.member)

\* C9, as claimed: adding a member and then removing the same member leaves the
\* membership list with the set of entries it had before the add.
C9_AddRemoveRestores ==
    groupHist.op = "add;remove" => Range(Now) = Range(groupHist.before)

\* C10: after clear_scope every inclusion and exclusion list element the scope
\* held before the call is still there and has no children.
C10_ClearKeepsLists ==
    policyHist.op = "clear_scope" =>
        \A p \in ScopeLists :
            p \in policyHist.before.present =>
                (/\ p \in policy.present
                 /\ RefsAt(policy, p) = <<>>
                 /\ \A q \in policy.present : ~Below(q, p))

\* clear_scope on a policy whose inclusion and exclusion lists held entries.
C10_Witness ==
    /\ policyHist.op = "clear_scope"
    /\ RefsAt(policyHist.before, <<"scope", "exclusions", "computers">>) # <<>>
    /\ RefsAt(policyHist.before, <<"scope", "computers">>) # <<>>
    /\ Len(RefsAt(policyHist.before, <<"scope", "exclusions", "buildings">>)) = 2

Operations == {"list", "get", "post", "put", "delete"}

\* The class the docstring calls deprecated, and the classes of results that are
\* only read (reports, saved searches).
DeprecatedOrReadOnly == {"JSSUser", "ComputerReport", "SavedSearch"}

\* Every capability is permitted unless the class sets it to False, and the
\* deprecated and read-only classes disable post, put and delete.
DefaultsAndReadOnly(cls) ==
    /\ \A op \in Operations : op \notin Overrides(cls) => Permits(cls, op)
    /\ cls \in DeprecatedOrReadOnly =>
          (~Permits(cls, "post") /\ ~Permits(cls, "put") /\ ~Permits(cls, "delete"))

\* C11, as amended: in the descriptor of the class of any call, every capability
\* is permitted unless the class overrides it; ComputerCheckIn permits get and
\* put (update) and disables list, post (create) and delete; every deprecated or
\* read-only class disables post, put and delete.
C11_CheckInGetAndPut ==
    call.cls \in Classes =>
        (/\ DefaultsAndReadOnly(call.cls)
         /\ call.cls = "ComputerCheckIn" =>
               (/\ Permits(call.cls, "get") /\ Permits(call.cls, "put")
                /\ ~Permits(call.cls, "list") /\ ~Permits(call.cls, "post")
                /\ ~Permits(call.cls, "delete")))

\* An update of the check-in settings went through the session.
C11_Witness ==
    /\ call.op = "put" /\ call.cls = "ComputerCheckIn" /\ call.raised = ""

\* C11, as claimed: ... ComputerCheckIn permits get and no other operation.
C11_CheckInGetOnly ==
    call.cls \in Classes =>
        (/\ DefaultsAndReadOnly(call.cls)
         /\ call.cls = "ComputerCheckIn" =>
               (/\ Permits(call.cls, "get")
                /\ \A op \in Operations \ {"get"} : ~Permits(call.cls, op)))

\* C12: every save() posts to {base}/fileuploads/{resource-type}/{id-token}/{value}
\* built from the values the object's parameters have at the time of that save.
C12_SavesToCurrentParameters ==
    uploadCall.op = "save" =>
        (/\ Len(uploadCall.sent) = 1
         /\ uploadCall.sent[1].verb = "POST"
         /\ uploadCall.sent[1].url =
              jss._url \o "/fileuploads/" \o upload.resource_type \o "/"
                  \o upload.id_type \o "/" \o upload._id)

\* C13: save() sends exactly one request; answered with status 201 it completes
\* without error, and answered with any status of 400 or more it raises
\* JSSPostError to the caller.
C13_SaveByStatus ==
    uploadCall.op = "save" =>
        (/\ Len(uploadCall.sent) = 1
         /\ uploadCall.status_code = 201 => uploadCall.raised = ""
         /\ uploadCall.status_code >= 400 => uploadCall.raised = "JSSPostError")

\* A save answered with status 400.
C13_Witness ==
    /\ uploadCall.op = "save" /\ uploadCall.status_code = 400
    /\ uploadCall.raised = "JSSPostError"

HasAlternate == truth(findtext_general(deviceDoc, "alt_mac_address"))

C15_NotFound ==
    (call.op = "get" /\ Sent /\ Status = 404) =>
        (/\ call.raised = "JSSGetError"
         /\ call.msg = "Object " \o call.sent[1].url \o " does not exist!"
         /\ call.value = None)

\* A keyed get answered 404 with a body that would parse.
C15_Witness ==
    /\ call.op = "get" /\ call.key = KeyInt(42) /\ Sent /\ Status = 404
    /\ call.response.text.wellformed /\ Kids # <<>>
    /\ call.raised = "JSSGetError"

TargetNames == {"computers", "computer_groups", "buildings", "departments"}
ListsUnder(block) == {block \o <<n>> : n \in TargetNames}
Targets == {"Computer", "ComputerGroup", "Building", "Department"}

\* The elements right under a block that are lists (not the exclusions block).
ListChildren(self, block) ==
    {p \in self.present :
        Len(p) = Len(block) + 1 /\ Below(p, block) /\ p # <<"scope", "exclusions">>}

\* The policy was built by new(): it holds the elements only new() makes.
BuiltByNew(self) == <<"maintenance", "recon">> \in self.present

\* C16: after new() the scope holds an empty list element for each of computers,
\* computer_groups, buildings and departments, and scope/exclusions one for each
\* of the same names; these are the paths add_object_to_scope and
\* add_object_to_exclusions write to; and after the first add of a Building to a
\* new policy the scope holds those four lists only, with the one reference in
\* scope/buildings.
C16_NewPolicyLists ==
    /\ policyHist.op = "new" =>
          (/\ \A p \in ListsUnder(<<"scope">>) \cup ListsUnder(<<"scope", "exclusions">>) :
                 p \in policy.present /\ RefsAt(policy, p) = <<>>
           /\ ListChildren(policy, <<"scope">>) = {split(scope_path(c)) : c \in Targets}
           /\ ListChildren(policy, <<"scope", "exclusions">>)
                 = {split(exclusions_path(c)) : c \in Targets})
    /\ (/\ policyHist.op = "add_object_to_scope" /\ policyHist.obj.cls = "Building"
        /\ policyHist.adds = 1 /\ BuiltByNew(policyHist.before)) =>
          (/\ ListChildren(policy, <<"scope">>) = ListsUnder(<<"scope">>)
           /\ RefsAt(policy, <<"scope", "buildings">>) = <<Ref(policyHist.obj)>>)

\* The list name of a class of objects a scope accepts.
ListNameOf(cls) ==
    CASE cls = "Computer" -> "computers"
      [] cls = "ComputerGroup" -> "computer_groups"
      [] cls = "Building" -> "buildings"
      [] cls = "Department" -> "departments"

\* The document differs from the one before in the list p alone, which gained
\* the reference at its end.
AppendedOnlyTo(p, ref) ==
    /\ p \in policy.present
    /\ RefsAt(policy, p) = Append(RefsAt(policyHist.before, p), ref)
    /\ \A q \in ScopeLists \ {p} :
         /\ q \in policy.present <=> q \in policyHist.before.present
         /\ RefsAt(policy, q) = RefsAt(policyHist.before, q)

\* C17: add_object_to_scope appends the reference to the inclusion list of the
\* object's class and changes no other list; add_object_to_exclusions does the
\* same under scope/exclusions; with an object of any other class both raise
\* TypeError and the document stays as it was.
C17_AddsToOneList ==
    policyHist.op \in {"add_object_to_scope", "add_object_to_exclusions"} =>
        LET obj == policyHist.obj
            block == IF policyHist.op = "add_object_to_scope" THEN <<"scope">>
                     ELSE <<"scope", "exclusions">>
        IN  IF obj.cls \in Targets
            THEN /\ policyHist.raised = ""
                 /\ AppendedOnlyTo(block \o <<ListNameOf(obj.cls)>>,
                                   [id |-> obj.id, name |-> obj.name])
            ELSE /\ policyHist.raised = "TypeError"
                 /\ policy = policyHist.before

\* A Building added to the scope of a policy whose lists already hold entries.
C17_Witness ==
    /\ policyHist.op = "add_object_to_scope" /\ policyHist.obj.cls = "Building"
    /\ RefsAt(policyHist.before, <<"scope", "buildings">>) # <<>>
    /\ RefsAt(policyHist.before, <<"scope", "exclusions", "buildings">>) # <<>>
    /\ Len(RefsAt(policy, <<"scope", "buildings">>)) = 2

\* The object of the last construction has one origin: the response to the one
\* request for its key, or the element it was given and no request.
OneOrigin ==
    /\ call.key.kind \in {"int", "str"} =>
          (/\ Len(call.sent) = 1
           /\ call.sent[1].verb = "GET"
           /\ call.sent[1].url = get_url(call.cls, call.key)
           /\ call.raised = "" => call.value = Object(call.cls, Element(Kids)))
    /\ call.key.kind = "Element" =>
          (/\ call.sent = <<>>
           /\ call.raised = ""
           /\ call.value = Object(call.cls, call.key))

\* C18: constructing a resource object from an int or str key sends exactly one
\* request, to the address of that key, and wraps the response; constructing it
\* from a parsed element sends no request and wraps the element; neither
\* changes the session's url, user, password or ssl_verify.
C18_OneOrigin ==
    [][call'.op = "__init__" => (OneOrigin' /\ jss' = jss)]_vars

\* An object constructed from a str key, from a response with children.
C18_Witness ==
    /\ call.op = "__init__" /\ call.key = KeyStr("bob")
    /\ call.raised = "" /\ Kids # <<>>
    /\ call.value = Object(call.cls, Element(Kids))

====
